---- MODULE Spec2Model ----
(***************************************************************************)
(* Model of the query router (baseline/query_router.py), of the rollups    *)
(* built by the ingestion pipeline (baseline/prepare.py) and of the query  *)
(* loop (baseline/run.py).                                                 *)
(*                                                                         *)
(* Representation of Python values:                                        *)
(*  - a dict is a TLA+ record (a function on its keys); d.get(k, dflt) is  *)
(*    Get(d, k, dflt);                                                     *)
(*  - a bare string that occurs where dicts may occur too (a select item,  *)
(*    a malformed where entry) is the record [str |-> s];                  *)
(*  - a filter value is a tuple of strings: a scalar 'JP' is <<"JP">>, a   *)
(*    pair ['a', 'b'] is <<"a", "b">>, and None is PyNone (the empty       *)
(*    tuple, which is falsy and different from every scalar);              *)
(*  - the SQL text a rule returns is the record of its clauses (Sql).      *)
(***************************************************************************)
EXTENDS Integers, Sequences, FiniteSets, TLC

VARIABLES
    q,        \* the query descriptor passed to the router
    pc,       \* the call that runs next
    res,      \* what each rule returned for q
    routed,   \* what route_query returned for q
    events,   \* the rows of the events table
    store,    \* the rollup files of the data store, by path
    rows,     \* the rows the routed query returned
    baseline, \* the rows the fallback query returned
    csv_files, \* the CSV files of the input directory, as read by read_csv
    file_no,   \* how many of them the load loop has dealt with
    calls,     \* the route_query calls in progress, by caller
    files,     \* the paths present in the data store
    base,      \* the rows of the partitioned events dataset in the data store
    sql,       \* the query run_queries hands to the engine
    qi,        \* how many queries the current run has answered
    runs       \* how many prepare and query runs were started

\* the variables of the ingestion and of the query loop that the router
\* calls leave alone
ingest == <<csv_files, file_no>>

\* the data store on disk and the state of the run that works on it
disk == <<files, base, sql, qi, runs>>

others == <<ingest, calls, disk>>

vars == <<q, pc, res, routed, events, store, rows, baseline, others>>

----------------------------------------------------------------------------
(* Python helpers *)

PyNone == <<>>

Get(d, k, dflt) == IF k \in DOMAIN d THEN d[k] ELSE dflt

IsDict(x) == "str" \notin DOMAIN x

Str(s) == [str |-> s]

Scalar(s) == <<s>>

Falsy(v) == v = PyNone \/ v = <<"">>

Upper(s) ==
    CASE s = "asc" -> "ASC"
      [] s = "desc" -> "DESC"
      [] OTHER -> s

Range(s) == {s[i] : i \in DOMAIN s}

----------------------------------------------------------------------------
(* Results of a rule: None, a rewritten query, or a raised exception *)

Sql(from, select, where, group_by, order_by) ==
    [kind |-> "sql", from |-> from, select |-> select, where |-> where,
     group_by |-> group_by, order_by |-> order_by, exc |-> ""]

None == [kind |-> "none", from |-> "", select |-> <<>>, where |-> <<>>,
         group_by |-> <<>>, order_by |-> <<>>, exc |-> ""]

Raise(e) == [kind |-> "error", from |-> "", select |-> <<>>, where |-> <<>>,
             group_by |-> <<>>, order_by |-> <<>>, exc |-> e]

Pending == [kind |-> "pending", from |-> "", select |-> <<>>, where |-> <<>>,
            group_by |-> <<>>, order_by |-> <<>>, exc |-> ""]

AGG_REVENUE == "data_store/agg_revenue_by_minute_publisher_country.parquet"
AGG_PURCHASE == "data_store/agg_purchase_summary.parquet"
AGG_COUNTS == "data_store/agg_counts_by_advertiser_type.parquet"

----------------------------------------------------------------------------
(* Shared pieces of the five rules *)

\* 'c' in select
InSelect(select, c) ==
    \E i \in DOMAIN select : ~IsDict(select[i]) /\ select[i].str = c

\* any(isinstance(s, dict) and s.get(fn) == col for s in select)
\* variant: the aggregate's column is not compared
HasAgg_any_column(select, fn, col) ==
    \E i \in DOMAIN select : IsDict(select[i]) /\ fn \in DOMAIN select[i]

HasAgg(select, fn, col) ==
    \E i \in DOMAIN select :
        IsDict(select[i]) /\ Get(select[i], fn, "") = col

\* w.get('col') == col and w.get('op') == op
IsFilter(w, col, op) ==
    Get(w, "col", "") = col /\ Get(w, "op", "") = op

\* any(w.get('col') == 'type' and w.get('op') == 'eq' and w.get('val') == v
\*     for w in where): the generator stops at the first hit, and w.get
\* raises AttributeError on an entry that is not a dict
TypeHit(w, v) == IsFilter(w, "type", "eq") /\ Get(w, "val", PyNone) = Scalar(v)

AnyTypeFilter(where, v) ==
    LET hits == {i \in DOMAIN where : IsDict(where[i]) /\ TypeHit(where[i], v)}
        bad  == {i \in DOMAIN where : ~IsDict(where[i])}
    IN  IF \E i \in bad : \A j \in hits : i < j THEN "error"
        ELSE IF hits # {} THEN "true" ELSE "false"

\* the for loop over where of try_q2_pattern / try_q5_pattern: the value of
\* the last entry with this column and operator, None when there is none
LastFilter(where, col, op) ==
    LET hits == {i \in DOMAIN where : IsFilter(where[i], col, op)}
    IN  IF hits = {} THEN PyNone
        ELSE Get(where[CHOOSE i \in hits : \A j \in hits : j <= i], "val", PyNone)

AllDicts(s) == \A i \in DOMAIN s : IsDict(s[i])

\* f"{col} {direction}" of one order_by entry, the aggregate expression agg
\* replaced by alias (agg = "" when the rule maps nothing)
OrderPart(o, agg, alias) ==
    LET col == Get(o, "col", "None")
        direction == Upper(Get(o, "dir", "asc"))
    IN  [col |-> IF agg # "" /\ col = agg THEN alias ELSE col,
         dir |-> direction]

OrderClause(order_by, agg, alias) ==
    [i \in DOMAIN order_by |-> OrderPart(order_by[i], agg, alias)]

Cond(col, op, val) == [col |-> col, op |-> op, val |-> val]

Out(expr, alias) == [expr |-> expr, as |-> alias]

----------------------------------------------------------------------------
(* The five rewrite rules *)

try_q1_pattern(d) ==
    LET select   == Get(d, "select", <<>>)
        where    == Get(d, "where", <<>>)
        group_by == Get(d, "group_by", <<>>)
        has_impression_filter == AnyTypeFilter(where, "impression")
    IN  IF group_by # <<"day">> THEN None
        ELSE IF Len(select) # 2 THEN None
        ELSE IF ~(InSelect(select, "day") /\ HasAgg(select, "SUM", "bid_price"))
             THEN None
        ELSE IF has_impression_filter = "error" THEN Raise("AttributeError")
        ELSE IF has_impression_filter = "false" THEN None
        ELSE IF Len(where) > 1 THEN None
        ELSE Sql(AGG_REVENUE,
                 <<Out("day", "day"),
                   Out("SUM(total_revenue)", "sum(bid_price)")>>,
                 <<>>, <<"day">>, <<>>)

\* variant: only the absence of both the country and the day filter rejects
try_q2_pattern_and(d) ==
    LET select   == Get(d, "select", <<>>)
        where    == Get(d, "where", <<>>)
        group_by == Get(d, "group_by", <<>>)
        type_filter    == LastFilter(where, "type", "eq")
        country_filter == LastFilter(where, "country", "eq")
        day_filter     == LastFilter(where, "day", "between")
    IN  IF group_by # <<"publisher_id">> THEN None
        ELSE IF Len(select) # 2 THEN None
        ELSE IF ~(InSelect(select, "publisher_id")
                  /\ HasAgg(select, "SUM", "bid_price"))
             THEN None
        ELSE IF ~AllDicts(where) THEN Raise("AttributeError")
        ELSE IF type_filter # Scalar("impression") THEN None
        ELSE IF Falsy(country_filter) /\ Falsy(day_filter) THEN None
        ELSE IF Len(day_filter) # 2 THEN Raise("ValueError")
        ELSE Sql(AGG_REVENUE,
                 <<Out("publisher_id", "publisher_id"),
                   Out("SUM(total_revenue)", "sum(bid_price)")>>,
                 <<Cond("country", "eq", country_filter),
                   Cond("day", "between", day_filter)>>,
                 <<"publisher_id">>, <<>>)

try_q2_pattern(d) ==
    LET select   == Get(d, "select", <<>>)
        where    == Get(d, "where", <<>>)
        group_by == Get(d, "group_by", <<>>)
        type_filter    == LastFilter(where, "type", "eq")
        country_filter == LastFilter(where, "country", "eq")
        day_filter     == LastFilter(where, "day", "between")
    IN  IF group_by # <<"publisher_id">> THEN None
        ELSE IF Len(select) # 2 THEN None
        ELSE IF ~(InSelect(select, "publisher_id")
                  /\ HasAgg(select, "SUM", "bid_price"))
             THEN None
        ELSE IF ~AllDicts(where) THEN Raise("AttributeError")
        ELSE IF type_filter # Scalar("impression") THEN None
        ELSE IF Falsy(country_filter) \/ Falsy(day_filter) THEN None
        ELSE IF Len(day_filter) # 2 THEN Raise("ValueError")
        ELSE Sql(AGG_REVENUE,
                 <<Out("publisher_id", "publisher_id"),
                   Out("SUM(total_revenue)", "sum(bid_price)")>>,
                 <<Cond("country", "eq", country_filter),
                   Cond("day", "between", day_filter)>>,
                 <<"publisher_id">>, <<>>)

\* variant: a missing type filter or an extra filter alone does not reject
try_q3_pattern_and(d) ==
    LET select   == Get(d, "select", <<>>)
        where    == Get(d, "where", <<>>)
        group_by == Get(d, "group_by", <<>>)
        order_by == Get(d, "order_by", <<>>)
        has_purchase_filter == AnyTypeFilter(where, "purchase")
    IN  IF group_by # <<"country">> THEN None
        ELSE IF Len(select) # 2 THEN None
        ELSE IF ~(InSelect(select, "country")
                  /\ HasAgg(select, "AVG", "total_price"))
             THEN None
        ELSE IF has_purchase_filter = "error" THEN Raise("AttributeError")
        ELSE IF has_purchase_filter = "false" /\ Len(where) > 1 THEN None
        ELSE IF ~AllDicts(order_by) THEN Raise("AttributeError")
        ELSE Sql(AGG_PURCHASE,
                 <<Out("country", "country"),
                   Out("sum_of_price / count_of_purchases", "avg(total_price)")>>,
                 <<>>, <<>>,
                 OrderClause(order_by, "AVG(total_price)", "avg(total_price)"))

try_q3_pattern(d) ==
    LET select   == Get(d, "select", <<>>)
        where    == Get(d, "where", <<>>)
        group_by == Get(d, "group_by", <<>>)
        order_by == Get(d, "order_by", <<>>)
        has_purchase_filter == AnyTypeFilter(where, "purchase")
    IN  IF group_by # <<"country">> THEN None
        ELSE IF Len(select) # 2 THEN None
        ELSE IF ~(InSelect(select, "country")
                  /\ HasAgg(select, "AVG", "total_price"))
             THEN None
        ELSE IF has_purchase_filter = "error" THEN Raise("AttributeError")
        ELSE IF has_purchase_filter = "false" \/ Len(where) > 1 THEN None
        ELSE IF ~AllDicts(order_by) THEN Raise("AttributeError")
        ELSE Sql(AGG_PURCHASE,
                 <<Out("country", "country"),
                   Out("sum_of_price / count_of_purchases", "avg(total_price)")>>,
                 <<>>, <<>>,
                 OrderClause(order_by, "AVG(total_price)", "avg(total_price)"))

\* variant: group_by may hold more columns than the grain
try_q4_pattern_superset(d) ==
    LET select   == Get(d, "select", <<>>)
        where    == Get(d, "where", <<>>)
        group_by == Get(d, "group_by", <<>>)
        order_by == Get(d, "order_by", <<>>)
    IN  IF ~({"advertiser_id", "type"} \subseteq Range(group_by)) THEN None
        ELSE IF Len(select) # 3 THEN None
        ELSE IF ~(InSelect(select, "advertiser_id") /\ InSelect(select, "type")
                  /\ HasAgg(select, "COUNT", "*"))
             THEN None
        ELSE IF where # <<>> THEN None
        ELSE IF ~AllDicts(order_by) THEN Raise("AttributeError")
        ELSE Sql(AGG_COUNTS,
                 <<Out("advertiser_id", "advertiser_id"),
                   Out("type", "type"),
                   Out("event_count", "count_star()")>>,
                 <<>>, <<>>,
                 OrderClause(order_by, "COUNT(*)", "count_star()"))

\* variant: the where list is not inspected
try_q4_pattern_any_where(d) ==
    LET select   == Get(d, "select", <<>>)
        where    == Get(d, "where", <<>>)
        group_by == Get(d, "group_by", <<>>)
        order_by == Get(d, "order_by", <<>>)
    IN  IF Range(group_by) # {"advertiser_id", "type"} THEN None
        ELSE IF Len(select) # 3 THEN None
        ELSE IF ~(InSelect(select, "advertiser_id") /\ InSelect(select, "type")
                  /\ HasAgg(select, "COUNT", "*"))
             THEN None
        ELSE IF ~AllDicts(order_by) THEN Raise("AttributeError")
        ELSE Sql(AGG_COUNTS,
                 <<Out("advertiser_id", "advertiser_id"),
                   Out("type", "type"),
                   Out("event_count", "count_star()")>>,
                 <<>>, <<>>,
                 OrderClause(order_by, "COUNT(*)", "count_star()"))

try_q4_pattern(d) ==
    LET select   == Get(d, "select", <<>>)
        where    == Get(d, "where", <<>>)
        group_by == Get(d, "group_by", <<>>)
        order_by == Get(d, "order_by", <<>>)
    IN  IF Range(group_by) # {"advertiser_id", "type"} THEN None
        ELSE IF Len(select) # 3 THEN None
        ELSE IF ~(InSelect(select, "advertiser_id") /\ InSelect(select, "type")
                  /\ HasAgg(select, "COUNT", "*"))
             THEN None
        ELSE IF where # <<>> THEN None
        ELSE IF ~AllDicts(order_by) THEN Raise("AttributeError")
        ELSE Sql(AGG_COUNTS,
                 <<Out("advertiser_id", "advertiser_id"),
                   Out("type", "type"),
                   Out("event_count", "count_star()")>>,
                 <<>>, <<>>,
                 OrderClause(order_by, "COUNT(*)", "count_star()"))

\* variant: filters beyond the two are not counted
try_q5_pattern_any_extra(d) ==
    LET select   == Get(d, "select", <<>>)
        where    == Get(d, "where", <<>>)
        group_by == Get(d, "group_by", <<>>)
        order_by == Get(d, "order_by", <<>>)
        type_filter == LastFilter(where, "type", "eq")
        day_filter  == LastFilter(where, "day", "eq")
    IN  IF group_by # <<"minute">> THEN None
        ELSE IF Len(select) # 2 THEN None
        ELSE IF ~(InSelect(select, "minute") /\ HasAgg(select, "SUM", "bid_price"))
             THEN None
        ELSE IF ~AllDicts(where) THEN Raise("AttributeError")
        ELSE IF type_filter # Scalar("impression") \/ Falsy(day_filter) THEN None
        ELSE IF ~AllDicts(order_by) THEN Raise("AttributeError")
        ELSE Sql(AGG_REVENUE,
                 <<Out("minute", "minute"),
                   Out("SUM(total_revenue)", "sum(bid_price)")>>,
                 <<Cond("day", "eq", day_filter)>>,
                 <<"minute">>,
                 OrderClause(order_by, "", ""))

try_q5_pattern(d) ==
    LET select   == Get(d, "select", <<>>)
        where    == Get(d, "where", <<>>)
        group_by == Get(d, "group_by", <<>>)
        order_by == Get(d, "order_by", <<>>)
        type_filter == LastFilter(where, "type", "eq")
        day_filter  == LastFilter(where, "day", "eq")
    IN  IF group_by # <<"minute">> THEN None
        ELSE IF Len(select) # 2 THEN None
        ELSE IF ~(InSelect(select, "minute") /\ HasAgg(select, "SUM", "bid_price"))
             THEN None
        ELSE IF ~AllDicts(where) THEN Raise("AttributeError")
        ELSE IF type_filter # Scalar("impression") \/ Falsy(day_filter) THEN None
        ELSE IF Len(where) > 2 THEN None
        ELSE IF ~AllDicts(order_by) THEN Raise("AttributeError")
        ELSE Sql(AGG_REVENUE,
                 <<Out("minute", "minute"),
                   Out("SUM(total_revenue)", "sum(bid_price)")>>,
                 <<Cond("day", "eq", day_filter)>>,
                 <<"minute">>,
                 OrderClause(order_by, "", ""))

Rules == 1..5

\* variant: the last entry of the chain repeats try_q4_pattern
TryRule_q4_twice(k, d) ==
    CASE k = 1 -> try_q1_pattern(d)
      [] k = 2 -> try_q2_pattern(d)
      [] k = 3 -> try_q3_pattern(d)
      [] k = 4 -> try_q4_pattern(d)
      [] k = 5 -> try_q4_pattern(d)

TryRule(k, d) ==
    CASE k = 1 -> try_q1_pattern(d)
      [] k = 2 -> try_q2_pattern(d)
      [] k = 3 -> try_q3_pattern(d)
      [] k = 4 -> try_q4_pattern(d)
      [] k = 5 -> try_q5_pattern(d)

\* a or b: b is evaluated only when a is None; an exception in a propagates
PyOr(a, b) == IF a.kind = "none" THEN b ELSE a

\* variant: the chain leaves out try_q5_pattern
route_query_without_q5(d) ==
    PyOr(try_q1_pattern(d),
    PyOr(try_q2_pattern(d),
    PyOr(try_q3_pattern(d),
         try_q4_pattern(d))))

route_query(d) ==
    PyOr(try_q1_pattern(d),
    PyOr(try_q2_pattern(d),
    PyOr(try_q3_pattern(d),
    PyOr(try_q4_pattern(d),
         try_q5_pattern(d)))))

----------------------------------------------------------------------------
(* Bounded descriptors *)

MaxSelect == 3
MaxWhere  == 4
MaxGroup  == 3
MaxOrder  == 2

\* the lists of length n over S
Lists(S, n) == [1..n -> S]

Columns == {"day", "publisher_id", "country", "advertiser_id", "type", "minute"}

SUM_BID   == [SUM |-> "bid_price"]
AVG_TOTAL == [AVG |-> "total_price"]
COUNT_ALL == [COUNT |-> "*"]
SUM_TOTAL == [SUM |-> "total_price"]

SelectItems == {Str(c) : c \in Columns}
                 \cup {SUM_BID, AVG_TOTAL, COUNT_ALL, SUM_TOTAL}

Filter(col, op, val) == [col |-> col, op |-> op, val |-> val]

T_IMP  == Filter("type", "eq", Scalar("impression"))
T_PUR  == Filter("type", "eq", Scalar("purchase"))
C_JP   == Filter("country", "eq", Scalar("JP"))
C_US   == Filter("country", "eq", Scalar("US"))
D_BTW  == Filter("day", "between", <<"2024-06-01", "2024-06-02">>)
D_EQ   == Filter("day", "eq", Scalar("2024-06-01"))
A_EQ   == Filter("advertiser_id", "eq", Scalar("1"))

Filters == {T_IMP, T_PUR, C_JP, C_US, D_BTW, D_EQ, A_EQ}

OrderCols == {"day", "publisher_id", "country", "minute",
              "SUM(bid_price)", "AVG(total_price)", "COUNT(*)"}

OrderItems == {[col |-> c, dir |-> d] : c \in OrderCols, d \in {"asc", "desc"}}
                \cup {[col |-> c] : c \in OrderCols}

Descriptor(select, where, group_by, order_by) ==
    [select |-> select, where |-> where, group_by |-> group_by,
     order_by |-> order_by]

\* the benchmark shape of each rule
Canon(k) ==
    CASE k = 1 -> Descriptor(<<Str("day"), SUM_BID>>, <<T_IMP>>, <<"day">>, <<>>)
      [] k = 2 -> Descriptor(<<Str("publisher_id"), SUM_BID>>,
                             <<T_IMP, C_JP, D_BTW>>, <<"publisher_id">>, <<>>)
      [] k = 3 -> Descriptor(<<Str("country"), AVG_TOTAL>>, <<T_PUR>>,
                             <<"country">>,
                             <<[col |-> "AVG(total_price)", dir |-> "desc"]>>)
      [] k = 4 -> Descriptor(<<Str("advertiser_id"), Str("type"), COUNT_ALL>>,
                             <<>>, <<"advertiser_id", "type">>,
                             <<[col |-> "COUNT(*)", dir |-> "desc"]>>)
      [] k = 5 -> Descriptor(<<Str("minute"), SUM_BID>>, <<T_IMP, D_EQ>>,
                             <<"minute">>,
                             <<[col |-> "minute", dir |-> "asc"]>>)

GrainLists == {Canon(k).group_by : k \in Rules} \cup {<<"type", "advertiser_id">>}

CanonOfGrain(g) ==
    Canon(CHOOSE k \in Rules : Range(Canon(k).group_by) = Range(g))

\* every select list under every accepted group_by, with that rule's filters
SelectFamily(d) ==
    \/ \E n \in 0..MaxSelect : \E s \in Lists(SelectItems, n), g \in GrainLists :
          d = Descriptor(s, CanonOfGrain(g).where, g, <<>>)
    \/ \E x \in SelectItems :
          d = Descriptor(Append(Canon(4).select, x), <<>>, Canon(4).group_by, <<>>)

\* every where list under every rule's select and group_by
WhereFamily(d) ==
    \E n \in 0..MaxWhere : \E w \in Lists(Filters, n), k \in Rules :
        d = Descriptor(Canon(k).select, w, Canon(k).group_by, <<>>)

\* every group_by list under every rule's select and filters
GroupFamily(d) ==
    \E n \in 0..MaxGroup : \E g \in Lists(Columns, n), k \in Rules :
        d = Descriptor(Canon(k).select, Canon(k).where, g, <<>>)

\* every order_by list under every rule's select, filters and group_by
OrderFamily(d) ==
    \E n \in 0..MaxOrder : \E o \in Lists(OrderItems, n), k \in Rules :
        d = Descriptor(Canon(k).select, Canon(k).where, Canon(k).group_by, o)

DayEq(x) == Filter("day", "eq", Scalar(x))

Days == {"2024-06-01", "2024-06-02", "2024-06-03"}

\* the per-minute query of every day, alone and with further filters
MinuteFamily(d) ==
    \E x \in Days : \E n \in 0..(MaxWhere - 2) : \E e \in Lists(Filters, n) :
        d = Descriptor(Canon(5).select, <<T_IMP, DayEq(x)>> \o e,
                       Canon(5).group_by, Canon(5).order_by)

\* group by publisher_id, no filters, COUNT(*)
NoRuleExample ==
    Descriptor(<<Str("publisher_id"), COUNT_ALL>>, <<>>, <<"publisher_id">>, <<>>)

\* group by advertiser_id, type and country
SupersetExample ==
    Descriptor(<<Str("advertiser_id"), Str("type"), Str("country"), COUNT_ALL>>,
               <<>>, <<"advertiser_id", "type", "country">>, <<>>)

Examples == {NoRuleExample, SupersetExample}

\* malformed pieces: a where entry that is a bare string, a between filter
\* whose value has one element, a filter without a value
NON_DICT == Str("type = 'impression'")
D_BAD    == Filter("day", "between", <<"2024-06-01">>)
NO_VAL   == [col |-> "type", op |-> "eq"]

MalformedFilters == {T_IMP, T_PUR, C_JP, D_BTW, D_EQ, NON_DICT, D_BAD, NO_VAL}

Restrict(d, keys) == [k \in keys |-> d[k]]

\* descriptors with absent fields
AbsentFamily(d) ==
    \E keys \in SUBSET {"select", "where", "group_by", "order_by"}, k \in Rules :
        d = Restrict(Canon(k), keys)

MalformedWhereFamily(d) ==
    \E n \in 0..MaxWhere : \E w \in Lists(MalformedFilters, n), k \in Rules :
        d = Descriptor(Canon(k).select, w, Canon(k).group_by, Canon(k).order_by)

MalformedOrderFamily(d) ==
    \E n \in 0..MaxOrder :
        \E o \in Lists({Str("day"), [col |-> "day"], [dir |-> "desc"]}, n),
           k \in Rules :
            d = Descriptor(Canon(k).select, Canon(k).where, Canon(k).group_by, o)

----------------------------------------------------------------------------
(* The router applied to one descriptor: each rule on its own, then          *)
(* route_query                                                             *)

NoIngest ==
    /\ csv_files = <<>>
    /\ file_no = 0

\* the data store does not exist and no run was started
NoDisk ==
    /\ files = {}
    /\ base = <<>>
    /\ sql = Pending
    /\ qi = 0
    /\ runs = 0

\* nothing is being ingested, nobody is calling, nothing is on disk
Idle ==
    /\ NoIngest
    /\ calls = <<>>
    /\ NoDisk

InitRes == [k \in Rules |-> Pending]

NoStore == [f \in {AGG_COUNTS, AGG_REVENUE, AGG_PURCHASE} |-> {}]

Step(k) ==
    CASE k = 1 -> "try_q1_pattern"
      [] k = 2 -> "try_q2_pattern"
      [] k = 3 -> "try_q3_pattern"
      [] k = 4 -> "try_q4_pattern"
      [] k = 5 -> "try_q5_pattern"
      [] k = 6 -> "route_query"
      [] OTHER -> "done"

Init ==
    /\ \/ SelectFamily(q)
       \/ WhereFamily(q)
       \/ GroupFamily(q)
       \/ OrderFamily(q)
       \/ MinuteFamily(q)
       \/ q \in Examples
    /\ pc = Step(1)
    /\ res = InitRes
    /\ routed = Pending
    /\ events = <<>>
    /\ store = NoStore
    /\ rows = {}
    /\ baseline = {}
    /\ Idle

TryQ(k) ==
    /\ pc = Step(k)
    /\ res' = [res EXCEPT ![k] = TryRule(k, q)]
    /\ pc' = Step(k + 1)
    /\ UNCHANGED <<q, routed, events, store, rows, baseline, others>>

TryQ1 == TryQ(1)
TryQ2 == TryQ(2)
TryQ3 == TryQ(3)
TryQ4 == TryQ(4)
TryQ5 == TryQ(5)

RouteQuery ==
    /\ pc = "route_query"
    /\ routed' = route_query(q)
    /\ pc' = "done"
    /\ UNCHANGED <<q, res, events, store, rows, baseline, others>>

Next == TryQ1 \/ TryQ2 \/ TryQ3 \/ TryQ4 \/ TryQ5 \/ RouteQuery

Spec == Init /\ [][Next]_vars

\* the same calls on malformed descriptors
InitMalformed ==
    /\ \/ AbsentFamily(q)
       \/ MalformedWhereFamily(q)
       \/ MalformedOrderFamily(q)
    /\ pc = Step(1)
    /\ res = InitRes
    /\ routed = Pending
    /\ events = <<>>
    /\ store = NoStore
    /\ rows = {}
    /\ baseline = {}
    /\ Idle

SpecMalformed == InitMalformed /\ [][Next]_vars

----------------------------------------------------------------------------
(* The events table and the rollups prepare builds from it.  A nullable    *)
(* number is the empty set (NULL) or a one-element set.                      *)

MaxEvents == 2

NULL == {}

Event(type, day, minute, publisher_id, country, advertiser_id, bid, total) ==
    [type |-> type, day |-> day, minute |-> minute, publisher_id |-> publisher_id,
     country |-> country, advertiser_id |-> advertiser_id,
     bid_price |-> bid, total_price |-> total]

EventUniverse ==
    << Event("impression", "2024-06-01", "2024-06-01 00:00", "1", "JP", "1", {1}, NULL),
       Event("impression", "2024-06-01", "2024-06-01 00:01", "1", "JP", "2", {2}, NULL),
       Event("impression", "2024-06-02", "2024-06-02 00:00", "2", "JP", "1", {4}, NULL),
       Event("impression", "2024-06-03", "2024-06-03 00:00", "1", "US", "1", {8}, NULL),
       Event("impression", "2024-06-01", "2024-06-01 00:00", "2", "US", "2", NULL, NULL),
       Event("purchase",   "2024-06-01", "2024-06-01 00:00", "1", "JP", "1", NULL, {3}),
       Event("purchase",   "2024-06-02", "2024-06-02 00:00", "1", "JP", "2", NULL, NULL),
       Event("purchase",   "2024-06-01", "2024-06-01 00:01", "2", "US", "1", NULL, {4}) >>

\* the tables over the universe, as non-decreasing index lists (row order
\* does not matter to any query here)
EventTable(tbl) ==
    \E n \in 0..MaxEvents : \E s \in Lists(DOMAIN EventUniverse, n) :
        /\ \A i \in 1..(n - 1) : s[i] <= s[i + 1]
        /\ tbl = [i \in 1..n |-> EventUniverse[s[i]]]

DayOrder == <<"2024-06-01", "2024-06-02", "2024-06-03">>

DayIndex(d) ==
    IF \E i \in DOMAIN DayOrder : DayOrder[i] = d
    THEN CHOOSE i \in DOMAIN DayOrder : DayOrder[i] = d
    ELSE 0

RECURSIVE SumOver(_, _, _)
SumOver(tbl, idx, col) ==
    IF idx = {} THEN 0
    ELSE LET i == CHOOSE j \in idx : TRUE
             v == tbl[i][col]
         IN  (IF v = NULL THEN 0 ELSE CHOOSE n \in v : TRUE)
               + SumOver(tbl, idx \ {i}, col)

\* SQL aggregates over the rows idx of the table tbl
SqlCountCol(tbl, idx, col) == Cardinality({i \in idx : tbl[i][col] # NULL})

SqlSum(tbl, idx, col) ==
    IF SqlCountCol(tbl, idx, col) = 0 THEN NULL ELSE {SumOver(tbl, idx, col)}

RECURSIVE Gcd(_, _)
Gcd(a, b) == IF b = 0 THEN a ELSE Gcd(b, a % b)

\* a / b on doubles, as the reduced fraction; NULL when an operand is NULL
\* or the divisor is 0
SqlDiv(a, b) ==
    IF a = NULL \/ b = NULL THEN NULL
    ELSE LET n == CHOOSE x \in a : TRUE
             d == CHOOSE x \in b : TRUE
         IN  IF d = 0 THEN NULL
             ELSE {<<n \div Gcd(n, d), d \div Gcd(n, d)>>}

SqlAvg(tbl, idx, col) ==
    SqlDiv(SqlSum(tbl, idx, col), {SqlCountCol(tbl, idx, col)})

\* the groups of the rows idx of tbl under GROUP BY cols
Groups(tbl, idx, cols) ==
    {{j \in idx : \A c \in Range(cols) : tbl[j][c] = tbl[i][c]} : i \in idx}

OfType(tbl, t) == {i \in DOMAIN tbl : tbl[i].type = t}

First(g) == CHOOSE i \in g : TRUE

\* COPY (SELECT advertiser_id, type, COUNT(*) ... GROUP BY advertiser_id, type)
RollupCounts(tbl) ==
    {[advertiser_id |-> tbl[First(g)].advertiser_id,
      type |-> tbl[First(g)].type,
      event_count |-> {Cardinality(g)}] :
        g \in Groups(tbl, DOMAIN tbl, <<"advertiser_id", "type">>)}

\* COPY (SELECT minute, day, publisher_id, country, SUM(bid_price)
\*       ... WHERE type = 'impression' GROUP BY minute, day, publisher_id, country)
RollupRevenue(tbl) ==
    {[minute |-> tbl[First(g)].minute,
      day |-> tbl[First(g)].day,
      publisher_id |-> tbl[First(g)].publisher_id,
      country |-> tbl[First(g)].country,
      total_revenue |-> SqlSum(tbl, g, "bid_price")] :
        g \in Groups(tbl, OfType(tbl, "impression"),
                     <<"minute", "day", "publisher_id", "country">>)}

\* variant: the divisor column is COUNT(*)
RollupPurchase_count_star(tbl) ==
    {[country |-> tbl[First(g)].country,
      sum_of_price |-> SqlSum(tbl, g, "total_price"),
      count_of_purchases |-> {Cardinality(g)}] :
        g \in Groups(tbl, OfType(tbl, "purchase"), <<"country">>)}

\* COPY (SELECT country, SUM(total_price), COUNT(total_price)
\*       ... WHERE type = 'purchase' GROUP BY country)
RollupPurchase(tbl) ==
    {[country |-> tbl[First(g)].country,
      sum_of_price |-> SqlSum(tbl, g, "total_price"),
      count_of_purchases |-> {SqlCountCol(tbl, g, "total_price")}] :
        g \in Groups(tbl, OfType(tbl, "purchase"), <<"country">>)}

BuildRollups(tbl) ==
    [f \in {AGG_COUNTS, AGG_REVENUE, AGG_PURCHASE} |->
        CASE f = AGG_COUNTS -> RollupCounts(tbl)
          [] f = AGG_REVENUE -> RollupRevenue(tbl)
          [] f = AGG_PURCHASE -> RollupPurchase(tbl)]

----------------------------------------------------------------------------
(* Execution of a query by the engine *)

\* one predicate of a WHERE clause on one row
Holds(row, c) ==
    CASE c.op = "eq" -> row[c.col] = c.val[1]
      [] c.op = "between" ->
            /\ DayIndex(c.val[1]) <= DayIndex(row[c.col])
            /\ DayIndex(row[c.col]) <= DayIndex(c.val[2])
      [] OTHER -> FALSE

\* the value of one output expression over the rows g of tbl
ExprValue(tbl, g, expr) ==
    CASE expr = "SUM(total_revenue)" -> SqlSum(tbl, g, "total_revenue")
      [] expr = "sum_of_price / count_of_purchases" ->
            SqlDiv(tbl[First(g)].sum_of_price, tbl[First(g)].count_of_purchases)
      [] OTHER -> tbl[First(g)][expr]

SetToSeq(S) ==
    CHOOSE f \in [1..Cardinality(S) -> S] : \A x \in S : \E i \in DOMAIN f : f[i] = x

\* con.execute(sql) for the text a rule returned: the rows as records keyed
\* by output column name (ORDER BY does not change the set of rows)
Execute(stmt, parquet) ==
    LET tbl  == SetToSeq(parquet[stmt.from])
        kept == {i \in DOMAIN tbl :
                    \A c \in DOMAIN stmt.where : Holds(tbl[i], stmt.where[c])}
        grps == IF stmt.group_by = <<>> THEN {{i} : i \in kept}
                ELSE Groups(tbl, kept, stmt.group_by)
    IN  {[a \in {stmt.select[k].as : k \in DOMAIN stmt.select} |->
            LET k == CHOOSE j \in DOMAIN stmt.select : stmt.select[j].as = a
            IN  ExprValue(tbl, g, stmt.select[k].expr)] : g \in grps}

\* the name the engine gives an aggregate column
ColumnName(item) ==
    IF ~IsDict(item) THEN item.str
    ELSE IF "SUM" \in DOMAIN item THEN "sum(" \o item.SUM \o ")"
    ELSE IF "AVG" \in DOMAIN item THEN "avg(" \o item.AVG \o ")"
    ELSE "count_star()"

ItemValue(tbl, g, item) ==
    IF ~IsDict(item) THEN tbl[First(g)][item.str]
    ELSE IF "SUM" \in DOMAIN item THEN SqlSum(tbl, g, item.SUM)
    ELSE IF "AVG" \in DOMAIN item THEN SqlAvg(tbl, g, item.AVG)
    ELSE {Cardinality(g)}

\* the query the descriptor states, run on the events table: every filter
\* applied (eq as equality, between as inclusive range), grouped by
\* group_by, one output column per select item
ExecuteDescriptor(d, tbl) ==
    LET kept == {i \in DOMAIN tbl :
                    \A w \in DOMAIN d.where : Holds(tbl[i], d.where[w])}
        grps == Groups(tbl, kept, d.group_by)
    IN  {[a \in {ColumnName(d.select[k]) : k \in DOMAIN d.select} |->
            LET k == CHOOSE j \in DOMAIN d.select : ColumnName(d.select[j]) = a
            IN  ItemValue(tbl, g, d.select[k])] : g \in grps}

----------------------------------------------------------------------------
(* prepare, then one query of run_queries answered both ways *)

InitEquiv ==
    /\ \/ WhereFamily(q)
       \/ q \in {Canon(k) : k \in Rules}
    /\ route_query(q).kind = "sql"
    /\ EventTable(events)
    /\ pc = "prepare"
    /\ res = InitRes
    /\ routed = Pending
    /\ store = NoStore
    /\ rows = {}
    /\ baseline = {}
    /\ Idle

Prepare ==
    /\ pc = "prepare"
    /\ store' = BuildRollups(events)
    /\ pc' = "route"
    /\ UNCHANGED <<q, res, routed, events, rows, baseline, others>>

Route ==
    /\ pc = "route"
    /\ routed' = route_query(q)
    /\ pc' = IF routed'.kind = "sql" THEN "execute" ELSE "finished"
    /\ UNCHANGED <<q, res, events, store, rows, baseline, others>>

ExecuteRouted ==
    /\ pc = "execute"
    /\ rows' = Execute(routed, store)
    /\ pc' = "baseline"
    /\ UNCHANGED <<q, res, routed, events, store, baseline, others>>

ExecuteBaseline ==
    /\ pc = "baseline"
    /\ baseline' = ExecuteDescriptor(q, events)
    /\ pc' = "finished"
    /\ UNCHANGED <<q, res, routed, events, store, rows, others>>

NextEquiv == Prepare \/ Route \/ ExecuteRouted \/ ExecuteBaseline

SpecEquiv == InitEquiv /\ [][NextEquiv]_vars

----------------------------------------------------------------------------
(* The load loop of prepare_from_directory / prepare_from_zip: every CSV    *)
(* file is read with all columns as strings and inserted into the events   *)
(* table by one INSERT ... SELECT that casts each column.  A nullable      *)
(* value is NULL or a one-element set.                                      *)

MaxRows == 2

RawFields == {"ts", "advertiser_id", "publisher_id", "user_id", "bid_price",
              "total_price"}

\* pd.read_csv(..., dtype=str): an empty field is NaN, which the engine
\* reads as NULL; any other field is its text
ReadCsv(text) == IF text = "" THEN NULL ELSE {text}

\* the texts that parse as a number
Numerals == {"7", "12"}

ParseNumber(text) == CASE text = "7" -> 7 [] text = "12" -> 12

\* TRY_CAST(v AS <numeric type>): NULL when the text does not parse
TryCast(v) ==
    IF v = NULL THEN NULL
    ELSE LET text == CHOOSE t \in v : TRUE
         IN  IF text \in Numerals THEN {ParseNumber(text)} ELSE NULL

\* NULLIF(v, '')
NullIfEmpty(v) == IF v = {""} THEN NULL ELSE v

\* whether v::DOUBLE raises a conversion error
CastRaises(v) == v # NULL /\ \A t \in v : t \notin Numerals

\* whether NULLIF(v, '')::DOUBLE raises
HardCastRaises(v) == CastRaises(NullIfEmpty(v))

\* the row INSERT ... SELECT makes of a raw row none of whose casts raises
CastRow(raw) ==
    [ts            |-> TryCast(raw.ts),
     advertiser_id |-> TryCast(raw.advertiser_id),
     publisher_id  |-> TryCast(raw.publisher_id),
     bid_price     |-> TryCast(NullIfEmpty(raw.bid_price)),
     user_id       |-> TryCast(raw.user_id),
     total_price   |-> TryCast(NullIfEmpty(raw.total_price))]

RowRaises(raw) == HardCastRaises(raw.bid_price) \/ HardCastRaises(raw.total_price)

\* a line of a CSV file all of whose fields parse, and the lines that differ
\* from it in one field, which is empty or does not parse
CleanLine == [f \in RawFields |-> "7"]

Lines ==
    {[CleanLine EXCEPT ![f] = v] : f \in RawFields, v \in {"12", "x", ""}}

\* two files holding up to MaxRows lines between them; either may be empty
InputFiles(fs) ==
    \E n \in 0..MaxRows : \E ls \in Lists(Lines, n) : \E k \in 0..n :
        LET raw == [i \in 1..n |-> [f \in RawFields |-> ReadCsv(ls[i][f])]]
        IN  fs = <<SubSeq(raw, 1, k), SubSeq(raw, k + 1, n)>>

InitIngest ==
    /\ InputFiles(csv_files)
    /\ file_no = 0
    /\ calls = <<>>
    /\ NoDisk
    /\ events = <<>>
    /\ pc = "load"
    /\ q = NoRuleExample
    /\ res = InitRes
    /\ routed = Pending
    /\ store = NoStore
    /\ rows = {}
    /\ baseline = {}

\* one turn of the loop over csv_files: an empty file is skipped, the INSERT
\* of any other file adds all its rows or raises
LoadChunk ==
    /\ pc = "load"
    /\ file_no < Len(csv_files)
    /\ LET chunk_df == csv_files[file_no + 1]
       IN  IF chunk_df = <<>>
           THEN /\ file_no' = file_no + 1
                /\ UNCHANGED <<events, pc>>
           ELSE IF \E i \in DOMAIN chunk_df : RowRaises(chunk_df[i])
           THEN /\ pc' = "raised"
                /\ UNCHANGED <<events, file_no>>
           ELSE /\ events' = events \o [i \in DOMAIN chunk_df |-> CastRow(chunk_df[i])]
                /\ file_no' = file_no + 1
                /\ pc' = pc
    /\ UNCHANGED <<q, res, routed, store, rows, baseline, csv_files, calls, disk>>

FinishLoad ==
    /\ pc = "load"
    /\ file_no = Len(csv_files)
    /\ pc' = "loaded"
    /\ UNCHANGED <<q, res, routed, events, store, rows, baseline, others>>

NextIngest == LoadChunk \/ FinishLoad

SpecIngest == InitIngest /\ [][NextIngest]_vars

----------------------------------------------------------------------------
(* Two callers run route_query at the same time on one descriptor object.  *)
(* A caller's frame holds the rule it tries next, the descriptor value it  *)
(* was called with and, at the end, what the call returned.                *)

Callers == {"a", "b"}

\* variant: a rule takes the first filter off the where list of the descriptor
DescriptorAfter_pop(k, d) ==
    IF "where" \in DOMAIN d /\ d.where # <<>>
    THEN [d EXCEPT !.where = Tail(@)]
    ELSE d

\* the descriptor object after rule k ran on it: the rules only read it
\* (q.get(...), iteration) and otherwise only print
DescriptorAfter(k, d) == d

InitConcurrent ==
    /\ \/ MinuteFamily(q)
       \/ q \in {Canon(k) : k \in Rules}
       \/ q \in Examples
    /\ calls = [c \in Callers |-> [rule |-> 1, arg |-> q, result |-> Pending]]
    /\ pc = "route_query"
    /\ res = InitRes
    /\ routed = Pending
    /\ events = <<>>
    /\ store = NoStore
    /\ rows = {}
    /\ baseline = {}
    /\ NoIngest
    /\ NoDisk

\* caller c evaluates the next operand of the or-chain of route_query
CallRule(c) ==
    /\ calls[c].result = Pending
    /\ LET k == calls[c].rule
           r == TryRule(k, q)
       IN  /\ calls' = [calls EXCEPT ![c] =
                  IF r.kind # "none" \/ k = 5
                  THEN [@ EXCEPT !.result = r]
                  ELSE [@ EXCEPT !.rule = k + 1]]
           /\ q' = DescriptorAfter(k, q)
    /\ UNCHANGED <<pc, res, routed, events, store, rows, baseline, ingest, disk>>

NextConcurrent == \E c \in Callers : CallRule(c)

SpecConcurrent == InitConcurrent /\ [][NextConcurrent]_vars

----------------------------------------------------------------------------
(* Prepare runs and query runs on one data store, one run at a time.  A    *)
(* prepare run goes through the statements of prepare_from_directory and   *)
(* may end at any of them; a query run is __main__ of run.py followed by   *)
(* the loop of run_queries.                                                *)

MaxRuns == 3

MaxQueries == 2

EVENTS_DIR == "data_store/events"

RollupFiles == {AGG_COUNTS, AGG_REVENUE, AGG_PURCHASE}

\* the contents of an input directory: a run of up to MaxEvents rows
Dataset(tbl) ==
    \E n \in 0..MaxEvents : \E i \in 1..(Len(EventUniverse) - n + 1) :
        tbl = SubSeq(EventUniverse, i, i + n - 1)

\* the descriptors of the query list
RunQueries == {Canon(k) : k \in Rules} \cup Examples

\* the text assemble_sql builds for a descriptor
AssembleSql(d) == [kind |-> "assembled", descriptor |-> d]

PrepareSteps == {"clean", "load", "export", "counts", "revenue", "purchase", "close"}

RunSteps == {"route", "assemble", "execute", "write", "raised"}

InitDisk ==
    /\ pc = "idle"
    /\ NoDisk
    /\ q = NoRuleExample
    /\ res = InitRes
    /\ routed = Pending
    /\ events = <<>>
    /\ store = NoStore
    /\ rows = {}
    /\ baseline = {}
    /\ NoIngest
    /\ calls = <<>>

StartPrepare ==
    /\ pc = "idle"
    /\ runs < MaxRuns
    /\ runs' = runs + 1
    /\ pc' = "clean"
    /\ UNCHANGED <<q, res, routed, events, store, rows, baseline, ingest, calls,
                   files, base, sql, qi>>

\* variant: the old data store is kept
PrepareClean_keep ==
    /\ pc = "clean"
    /\ pc' = "load"
    /\ UNCHANGED <<q, res, routed, events, store, rows, baseline, ingest, calls, disk>>

\* if DATA_STORE.exists(): shutil.rmtree(DATA_STORE); DATA_STORE.mkdir(...)
PrepareClean ==
    /\ pc = "clean"
    /\ files' = {}
    /\ base' = <<>>
    /\ store' = NoStore
    /\ pc' = "load"
    /\ UNCHANGED <<q, res, routed, events, rows, baseline, ingest, calls, sql, qi, runs>>

\* CREATE TABLE events and the load loop, for some input directory
PrepareLoad ==
    /\ pc = "load"
    /\ Dataset(events')
    /\ pc' = "export"
    /\ UNCHANGED <<q, res, routed, store, rows, baseline, ingest, calls, disk>>

\* COPY events TO 'data_store/events' (PARTITION_BY (type, day)): an empty
\* table writes no partition file
PrepareExport ==
    /\ pc = "export"
    /\ base' = events
    /\ files' = IF events = <<>> THEN files ELSE files \cup {EVENTS_DIR}
    /\ pc' = "counts"
    /\ UNCHANGED <<q, res, routed, events, store, rows, baseline, ingest, calls,
                   sql, qi, runs>>

\* COPY (SELECT ... FROM read_parquet('data_store/events/*/*/*.parquet'))
\* TO f: raises when no partition file exists
WriteRollup(f, contents, next) ==
    IF EVENTS_DIR \in files
    THEN /\ store' = [store EXCEPT ![f] = contents]
         /\ files' = files \cup {f}
         /\ pc' = next
         /\ UNCHANGED events
    ELSE /\ pc' = "idle"
         /\ events' = <<>>
         /\ UNCHANGED <<store, files>>

PrepareCounts ==
    /\ pc = "counts"
    /\ WriteRollup(AGG_COUNTS, RollupCounts(base), "revenue")
    /\ UNCHANGED <<q, res, routed, rows, baseline, ingest, calls, base, sql, qi, runs>>

PrepareRevenue ==
    /\ pc = "revenue"
    /\ WriteRollup(AGG_REVENUE, RollupRevenue(base), "purchase")
    /\ UNCHANGED <<q, res, routed, rows, baseline, ingest, calls, base, sql, qi, runs>>

PreparePurchase ==
    /\ pc = "purchase"
    /\ WriteRollup(AGG_PURCHASE, RollupPurchase(base), "close")
    /\ UNCHANGED <<q, res, routed, rows, baseline, ingest, calls, base, sql, qi, runs>>

\* con.close(); temp_db.unlink()
PrepareClose ==
    /\ pc = "close"
    /\ events' = <<>>
    /\ pc' = "idle"
    /\ UNCHANGED <<q, res, routed, store, rows, baseline, ingest, calls, disk>>

\* the run ends at the statement it is at; ending inside the export leaves
\* the partitions of some of the rows
PrepareAbort ==
    /\ pc \in PrepareSteps
    /\ pc' = "idle"
    /\ events' = <<>>
    /\ IF pc = "export"
       THEN \E n \in 0..Len(events) :
               /\ base' = SubSeq(events, 1, n)
               /\ files' = IF n = 0 THEN files ELSE files \cup {EVENTS_DIR}
       ELSE UNCHANGED <<base, files>>
    /\ UNCHANGED <<q, res, routed, store, rows, baseline, ingest, calls, sql, qi, runs>>

\* __main__ of run.py: exits unless the data store holds partition files
StartRun ==
    /\ pc = "idle"
    /\ runs < MaxRuns
    /\ EVENTS_DIR \in files
    /\ runs' = runs + 1
    /\ qi' = 0
    /\ pc' = "route"
    /\ UNCHANGED <<q, res, routed, events, store, rows, baseline, ingest, calls,
                   files, base, sql>>

\* sql = route_query(q) for the next query of the list
RunRoute ==
    /\ pc = "route"
    /\ qi < MaxQueries
    /\ \E d \in RunQueries :
          /\ q' = d
          /\ routed' = route_query(d)
    /\ sql' = routed'
    /\ rows' = {}
    /\ pc' = IF routed'.kind = "none" THEN "assemble" ELSE "execute"
    /\ UNCHANGED <<res, events, store, baseline, ingest, calls, files, base, qi, runs>>

\* if sql is None: sql = assemble_sql(q)
RunAssemble ==
    /\ pc = "assemble"
    /\ sql' = AssembleSql(q)
    /\ pc' = "execute"
    /\ UNCHANGED <<q, res, routed, events, store, rows, baseline, ingest, calls,
                   files, base, qi, runs>>

\* variant: when the routed query fails, the fallback query is run instead
RunExecute_masked ==
    /\ pc = "execute"
    /\ IF sql.kind = "sql" /\ sql.from \in files
       THEN /\ rows' = Execute(sql, store)
            /\ UNCHANGED sql
       ELSE /\ rows' = ExecuteDescriptor(q, base)
            /\ sql' = AssembleSql(q)
    /\ pc' = "write"
    /\ UNCHANGED <<q, res, routed, events, store, baseline, ingest, calls,
                   files, base, qi, runs>>

\* res = con.execute(sql); rows = res.fetchall(): a routed query raises when
\* its rollup file is missing, and nothing catches that
RunExecute ==
    /\ pc = "execute"
    /\ IF sql.kind = "sql"
       THEN IF sql.from \in files
            THEN /\ rows' = Execute(sql, store)
                 /\ pc' = "write"
            ELSE /\ pc' = "raised"
                 /\ UNCHANGED rows
       ELSE /\ rows' = ExecuteDescriptor(q, base)
            /\ pc' = "write"
    /\ UNCHANGED <<q, res, routed, events, store, baseline, ingest, calls, disk>>

\* the rows are written to out_dir/q<i>.csv
RunWrite ==
    /\ pc = "write"
    /\ qi' = qi + 1
    /\ pc' = "route"
    /\ UNCHANGED <<q, res, routed, events, store, rows, baseline, ingest, calls,
                   files, base, sql, runs>>

\* the list is exhausted, or the exception leaves run_queries
RunFinish ==
    /\ pc \in {"route", "raised"}
    /\ pc' = "idle"
    /\ UNCHANGED <<q, res, routed, events, store, rows, baseline, others>>

NextDisk ==
    \/ StartPrepare
    \/ PrepareClean
    \/ PrepareLoad
    \/ PrepareExport
    \/ PrepareCounts
    \/ PrepareRevenue
    \/ PreparePurchase
    \/ PrepareClose
    \/ PrepareAbort
    \/ StartRun
    \/ RunRoute
    \/ RunAssemble
    \/ RunExecute
    \/ RunWrite
    \/ RunFinish

SpecDisk == InitDisk /\ [][NextDisk]_vars

----------------------------------------------------------------------------
(* Properties of the rules *)

Applied(k) == res[k].kind # "pending"

Matched(k) == res[k].kind = "sql"

Where   == Get(q, "where", <<>>)
Select  == Get(q, "select", <<>>)
GroupBy == Get(q, "group_by", <<>>)
OrderBy == Get(q, "order_by", <<>>)

\* the filters each rule expects, as (column, operator) pairs
Anticipated(k) ==
    CASE k = 1 -> {<<"type", "eq">>}
      [] k = 2 -> {<<"type", "eq">>, <<"country", "eq">>, <<"day", "between">>}
      [] k = 3 -> {<<"type", "eq">>}
      [] k = 4 -> {}
      [] k = 5 -> {<<"type", "eq">>, <<"day", "eq">>}

Unanticipated(k) ==
    {i \in DOMAIN Where :
        <<Get(Where[i], "col", ""), Get(Where[i], "op", "")>> \notin Anticipated(k)}

\* C1: a rule never returns a rewritten query for a descriptor whose where
\* list holds a filter on a column/operator the rule does not anticipate
C1_UnrecognizedFilterRejected ==
    \A k \in Rules : Unanticipated(k) # {} => ~Matched(k)

AliasOf(col) ==
    CASE col = "SUM(bid_price)" -> "sum(bid_price)"
      [] col = "AVG(total_price)" -> "avg(total_price)"
      [] col = "COUNT(*)" -> "count_star()"
      [] OTHER -> col

\* C3: on every match the rewritten query carries every order_by entry of the
\* descriptor, in sequence, with its direction, an aggregate expression
\* replaced by the rollup output alias
C3_OrderByReapplied ==
    \A k \in Rules :
        Matched(k) =>
            /\ Len(res[k].order_by) = Len(OrderBy)
            /\ \A i \in DOMAIN OrderBy :
                  /\ res[k].order_by[i].col = AliasOf(Get(OrderBy[i], "col", "None"))
                  /\ res[k].order_by[i].dir = Upper(Get(OrderBy[i], "dir", "asc"))

\* C4: no rule and no route_query call raises an error, whatever the
\* descriptor
C4_NeverRaises ==
    /\ \A k \in Rules : res[k].kind # "error"
    /\ routed.kind # "error"

\* C2: for every routed descriptor and every events table, the rewritten
\* query run on the rollups returns the same set of rows as the descriptor's
\* own query run on the events table
C2_RewriteEquivalent ==
    pc = "finished" /\ routed.kind = "sql" => rows = baseline

MatchingRules == {k \in Rules : Matched(k)}

\* C5: route_query returns the rewritten query of the earliest matching rule
\* in the order Q1..Q5, and None exactly when every rule returns None
C5_FirstMatchWins ==
    pc = "done" =>
        /\ MatchingRules # {} =>
              routed = res[CHOOSE k \in MatchingRules :
                              \A j \in MatchingRules : k <= j]
        /\ routed.kind = "none" <=> \A k \in Rules : res[k].kind = "none"

C5_Witness ==
    /\ pc = "done"
    /\ routed.kind = "sql"
    /\ routed = res[5]
    /\ \A k \in 1..4 : res[k].kind = "none"

Grain(k) ==
    CASE k = 1 -> {"day"}
      [] k = 2 -> {"publisher_id"}
      [] k = 3 -> {"country"}
      [] k = 4 -> {"advertiser_id", "type"}
      [] k = 5 -> {"minute"}

\* C6: a rule matches only if the set of group_by columns is exactly its
\* grain; a descriptor grouped by advertiser_id, type and country is matched
\* by no rule
C6_GrainExact ==
    /\ \A k \in Rules : Matched(k) => Range(GroupBy) = Grain(k)
    /\ Range(GroupBy) = {"advertiser_id", "type", "country"}
          => \A k \in Rules : ~Matched(k)

C6_Witness ==
    /\ Matched(4)
    /\ GroupBy = <<"type", "advertiser_id">>

Projection(k) ==
    CASE k = 1 -> {Str("day"), SUM_BID}
      [] k = 2 -> {Str("publisher_id"), SUM_BID}
      [] k = 3 -> {Str("country"), AVG_TOTAL}
      [] k = 4 -> {Str("advertiser_id"), Str("type"), COUNT_ALL}
      [] k = 5 -> {Str("minute"), SUM_BID}

\* C7: a rule matches only if the select list has exactly the rule's arity
\* and consists of the grain columns and the rule's aggregate
C7_SelectExact ==
    \A k \in Rules :
        Matched(k) =>
            /\ Len(Select) = Cardinality(Projection(k))
            /\ Range(Select) = Projection(k)

C7_Witness ==
    /\ Matched(4)
    /\ Select = <<COUNT_ALL, Str("type"), Str("advertiser_id")>>

HasFilter(col, op) == \E i \in DOMAIN Where : IsFilter(Where[i], col, op)

\* C8: try_q2_pattern matches only if where holds type eq 'impression', an eq
\* filter on country and a between filter on day, and the rewritten query
\* then filters on a country value and an inclusive day range of the
\* descriptor and on nothing else
C8_Q2Filters ==
    /\ Matched(2) =>
          /\ \E i \in DOMAIN Where : TypeHit(Where[i], "impression")
          /\ Len(res[2].where) = 2
          /\ \E i \in DOMAIN Where :
                /\ IsFilter(Where[i], "country", "eq")
                /\ res[2].where[1] = Cond("country", "eq", Where[i].val)
          /\ \E i \in DOMAIN Where :
                /\ IsFilter(Where[i], "day", "between")
                /\ Len(Where[i].val) = 2
                /\ res[2].where[2] = Cond("day", "between", Where[i].val)
    /\ (Applied(2) /\ ~(HasFilter("country", "eq") /\ HasFilter("day", "between")))
          => res[2].kind = "none"

C8_Witness ==
    /\ Matched(2)
    /\ Where = <<D_BTW, C_US, T_IMP>>
    /\ res[2].where = <<Cond("country", "eq", Scalar("US")),
                        Cond("day", "between", <<"2024-06-01", "2024-06-02">>)>>

\* C9: try_q1_pattern matches only when where is the single predicate
\* type eq 'impression', try_q3_pattern only when it is the single predicate
\* type eq 'purchase'
C9_SingleTypeFilter ==
    /\ Matched(1) => Len(Where) = 1 /\ TypeHit(Where[1], "impression")
    /\ Matched(3) => Len(Where) = 1 /\ TypeHit(Where[1], "purchase")

C9_Witness ==
    /\ Matched(3)
    /\ Where = <<T_PUR>>

\* C10: try_q4_pattern returns no match for every descriptor whose where list
\* is not empty
C10_Q4NoFilters ==
    (Applied(4) /\ Len(Where) > 0) => res[4].kind = "none"

C10_Witness ==
    /\ Applied(4)
    /\ res[4].kind = "none"
    /\ Len(Where) = 1
    /\ Select = Canon(4).select
    /\ GroupBy = Canon(4).group_by

\* the query try_q5_pattern returns for day x, ordered by minute ascending
MinuteQuery(x) ==
    Sql(AGG_REVENUE,
        <<Out("minute", "minute"), Out("SUM(total_revenue)", "sum(bid_price)")>>,
        <<Cond("day", "eq", Scalar(x))>>,
        <<"minute">>,
        <<[col |-> "minute", dir |-> "ASC"]>>)

MinuteShape ==
    /\ Select = Canon(5).select
    /\ GroupBy = Canon(5).group_by
    /\ OrderBy = Canon(5).order_by
    /\ Len(Where) >= 2
    /\ Where[1] = T_IMP
    /\ IsFilter(Where[2], "day", "eq")

\* C11: the per-minute descriptor of day X is routed to the Q5 rewrite, which
\* reads the revenue rollup, filters day = X, groups and sums by minute and
\* orders by minute ascending; with a filter beyond these two Q5 gives no match
C11_MinuteQueryRouted ==
    MinuteShape =>
        /\ (pc = "done" /\ Len(Where) = 2) =>
              /\ routed = MinuteQuery(Where[2].val[1])
              /\ routed = res[5]
        /\ (Applied(5) /\ Len(Where) > 2) => res[5].kind = "none"

C11_Witness ==
    /\ pc = "done"
    /\ MinuteShape
    /\ Where = <<T_IMP, DayEq("2024-06-02")>>
    /\ routed = MinuteQuery("2024-06-02")

\* C12: the output columns of a rewritten query are, in order, the columns of
\* the descriptor's select list, aggregates under their output alias
C12_ColumnOrder ==
    \A k \in Rules :
        Matched(k) =>
            /\ Len(res[k].select) = Len(Select)
            /\ \A i \in DOMAIN Select : res[k].select[i].as = ColumnName(Select[i])

\* C13: at most one of the five rules matches a descriptor, and route_query
\* returns that rule's query
C13_MutuallyExclusive ==
    /\ Cardinality(MatchingRules) <= 1
    /\ pc = "done" => \A k \in MatchingRules : routed = res[k]

C13_Witness ==
    /\ pc = "done"
    /\ MatchingRules = {3}
    /\ routed = res[3]

Swap(s, i, j) ==
    [n \in DOMAIN s |-> IF n = i THEN s[j] ELSE IF n = j THEN s[i] ELSE s[n]]

\* C18: a rule's result does not change when two entries of the where list
\* change places
C18_WhereOrderIrrelevant ==
    \A k \in Rules :
        Applied(k) =>
            \A i, j \in DOMAIN Where :
                TryRule(k, [q EXCEPT !.where = Swap(Where, i, j)]) = res[k]

\* the purchase rows of country c whose total_price is not NULL
Priced(c) ==
    {i \in DOMAIN events : /\ events[i].type = "purchase"
                           /\ events[i].country = c
                           /\ events[i].total_price # NULL}

\* v is the mean of total_price over the priced purchase rows of country c
IsRawAverage(v, c) ==
    IF Priced(c) = {} THEN v = NULL
    ELSE \E f \in v : /\ v = {f}
                      /\ f[1] * Cardinality(Priced(c))
                            = f[2] * SumOver(events, Priced(c), "total_price")

\* C16: the Q3 rewrite returns, for every country of the purchase rollup,
\* sum_of_price / count_of_purchases of that country's row (300 and 3 give
\* 100), and this is the average of total_price over the country's raw
\* purchase rows, NULL prices left out
C16_AverageFromSumAndCount ==
    /\ SqlDiv({300}, {3}) = {<<100, 1>>}
    /\ (pc \in {"baseline", "finished"} /\ routed.kind = "sql"
                                        /\ routed.from = AGG_PURCHASE) =>
          /\ \A r \in store[AGG_PURCHASE] :
                \E row \in rows :
                    /\ row.country = r.country
                    /\ row["avg(total_price)"]
                          = SqlDiv(r.sum_of_price, r.count_of_purchases)
          /\ \A row \in rows : IsRawAverage(row["avg(total_price)"], row.country)

C16_Witness ==
    /\ pc = "finished"
    /\ routed.from = AGG_PURCHASE
    /\ Cardinality(Priced("JP")) = 1
    /\ \E i \in DOMAIN events : /\ events[i].type = "purchase"
                                /\ events[i].country = "JP"
                                /\ events[i].total_price = NULL
    /\ \E row \in rows : row.country = "JP" /\ row["avg(total_price)"] = {<<3, 1>>}

\* the raw row with every field that does not parse replaced by NULL
NullWhereMalformed(raw) ==
    [f \in RawFields |-> TryCast(NullIfEmpty(raw[f]))]

\* C15: a value that does not parse, in any numeric field or in the
\* timestamp, is loaded as NULL and the load goes on: the load never raises,
\* and when it is over the events table holds every row of every file
C15_MalformedLoadsAsNull ==
    /\ pc # "raised"
    /\ pc = "loaded" =>
          LET all == csv_files[1] \o csv_files[2]
          IN  events = [i \in DOMAIN all |-> NullWhereMalformed(all[i])]

C14_FallbackOnlyOnNoMatch ==
    /\ pc \in {"execute", "write", "raised"} =>
          (sql.kind = "assembled" <=> routed.kind = "none")
    /\ pc = "raised" =>
          /\ sql = routed
          /\ routed.kind = "sql"
          /\ routed.from \notin files
          /\ rows = {}
    /\ (pc = "write" /\ routed.kind = "sql") => routed.from \in files

\* a matched query failed on a store that holds the partitions but not the
\* rollup it reads
C14_Witness ==
    /\ pc = "raised"
    /\ routed.kind = "sql"
    /\ EVENTS_DIR \in files
    /\ routed.from \notin files

====
